---- MODULE Spec2Model ----
(***************************************************************************)
(* puttylog2dieharder.py: reads lines of hexadecimal text from its input,  *)
(* prints a fixed dieharder header, then prints int(word, 16) for every    *)
(* 8-character word of every stripped line.                                *)
(*                                                                         *)
(* Text is a sequence of one-character strings.  The output stream is the  *)
(* sequence of the lines written to it.  A Python integer is a record      *)
(* [neg, hi, lo] of value (-1)^neg * (hi * 65536 + lo) with lo < 65536, so *)
(* that 0xFFFFFFFF is represented exactly.                                 *)
(***************************************************************************)
EXTENDS Integers, Sequences, FiniteSets, TLC

VARIABLES stdin, pos, pc, line, words, out, prev

vars == <<stdin, pos, pc, line, words, out, prev>>

\* ---------------------------------------------------------------- bounds
\* number of pieces the input text is assembled from
MaxPieces == 4

\* ------------------------------------------------------------- characters
\* Python integers are held in two limbs of 16 bits
Limb == 2 ^ 16

DecChars == <<"0", "1", "2", "3", "4", "5", "6", "7", "8", "9">>

LowerChars == <<"a", "b", "c", "d", "e", "f">>

UpperChars == <<"A", "B", "C", "D", "E", "F">>

IndexOf(c, s) == CHOOSE i \in 1..Len(s) : s[i] = c

InSeq(c, s) == \E i \in 1..Len(s) : s[i] = c

\* the characters strtoul accepts as digits in base 16
IsHexDigit(c) == InSeq(c, DecChars) \/ InSeq(c, LowerChars) \/ InSeq(c, UpperChars)

\* HexVal with the lower-case letters one too high
HexValLowerOffByOne(c) ==
    IF InSeq(c, DecChars) THEN IndexOf(c, DecChars) - 1
    ELSE IF InSeq(c, LowerChars) THEN IndexOf(c, LowerChars) + 10
    ELSE IndexOf(c, UpperChars) + 9

HexVal(c) ==
    IF InSeq(c, DecChars) THEN IndexOf(c, DecChars) - 1
    ELSE IF InSeq(c, LowerChars) THEN IndexOf(c, LowerChars) + 9
    ELSE IndexOf(c, UpperChars) + 9

\* str.isspace() in the C locale (the vertical tab has no TLA+ escape)
IsSpace(c) == c \in {" ", "\t", "\n", "\r", "\f"}

SetMin(S) == CHOOSE x \in S : \A y \in S : x <= y

SetMax(S) == CHOOSE x \in S : \A y \in S : y <= x

\* ------------------------------------------------------------ the program
\* str.strip(): leading and trailing whitespace removed
strip(s) ==
    LET keep == {i \in 1..Len(s) : ~IsSpace(s[i])}
    IN  IF keep = {} THEN <<>> ELSE SubSeq(s, SetMin(keep), SetMax(keep))

\* [line[i:i+n] for i in range(0, len(line), n)], from offset i on
RECURSIVE split_from(_, _, _)
split_from(s, i, n) ==
    IF i >= Len(s) THEN <<>>
    ELSE <<SubSeq(s, i + 1, IF i + n < Len(s) THEN i + n ELSE Len(s))>>
             \o split_from(s, i + n, n)

\* split_by_n over range(0, len(line) - n + 1, n): the short last word is lost
split_by_n_short(s, n) ==
    SelectSeq(split_from(s, 0, n), LAMBDA w : Len(w) = n)

\* split_by_n that yields one empty word for an empty line
split_by_n_blank(s, n) ==
    IF s = <<>> THEN << <<>> >> ELSE split_from(s, 0, n)

split_by_n(s, n) == split_from(s, 0, n)

\* one step of strtoul: v * base + d on the two limbs
MulAdd(v, base, d) ==
    LET t == v.lo * base + d
    IN  [hi |-> v.hi * base + t \div Limb, lo |-> t % Limb]

RECURSIVE strtoul(_, _)
strtoul(digits, v) ==
    IF digits = <<>> THEN v
    ELSE strtoul(Tail(digits), MulAdd(v, 16, HexVal(Head(digits))))

\* int(word, 16) of Python 2.7: surrounding whitespace skipped, an optional
\* sign, an optional 0x/0X prefix, then one or more hex digits and nothing
\* else; anything else raises ValueError (ok = FALSE)
int16(word) ==
    LET s      == strip(word)
        signed == s # <<>> /\ s[1] \in {"+", "-"}
        body   == IF signed THEN Tail(s) ELSE s
        prefix == Len(body) >= 2 /\ body[1] = "0" /\ body[2] \in {"x", "X"}
        digits == IF prefix THEN SubSeq(body, 3, Len(body)) ELSE body
        valid  == digits # <<>> /\ \A i \in 1..Len(digits) : IsHexDigit(digits[i])
        mag    == IF valid THEN strtoul(digits, [hi |-> 0, lo |-> 0])
                  ELSE [hi |-> 0, lo |-> 0]
    IN  [ok  |-> valid,
         neg |-> valid /\ signed /\ s[1] = "-" /\ (mag.hi # 0 \/ mag.lo # 0),
         hi  |-> mag.hi,
         lo  |-> mag.lo]

\* decimal digits of a magnitude, most significant first
RECURSIVE DecDigits(_)
DecDigits(v) ==
    IF v.hi = 0 /\ v.lo < 10 THEN <<DecChars[v.lo + 1]>>
    ELSE LET t == (v.hi % 10) * Limb + v.lo
         IN  DecDigits([hi |-> v.hi \div 10, lo |-> t \div 10])
                 \o <<DecChars[(t % 10) + 1]>>

\* str(n) of an integer, as print writes it
str(n) == IF n.neg THEN <<"-">> \o DecDigits(n) ELSE DecDigits(n)

Rep(c, n) == [i \in 1..n |-> c]

\* no earlier run
NoRun == [pc |-> "none", out |-> <<>>]

HeaderRule == <<"#">> \o Rep("=", 66)

HeaderGenerator(seed) ==
    <<"#", " ", "g", "e", "n", "e", "r", "a", "t", "o", "r", " ",
      "r", "y", "a", "n", "g", "e", "i", "g", "e", "r", " ", " ",
      "s", "e", "e", "d", " ", "=", " ", seed>>

HeaderType == <<"t", "y", "p", "e", ":", " ", "d">>

HeaderNumbit == <<"n", "u", "m", "b", "i", "t", ":", " ", "3", "2">>

\* the header with a seed that differs from one run to the next
HeaderLinesSeeded ==
    <<HeaderRule, HeaderGenerator(IF prev.pc = "none" THEN "0" ELSE "1"),
      HeaderRule, HeaderType, HeaderNumbit, <<>>>>

\* the lines the first print statement writes: the literal ends in a
\* newline and print adds one more, hence the trailing empty line
HeaderLines ==
    <<HeaderRule, HeaderGenerator("0"), HeaderRule, HeaderType, HeaderNumbit, <<>>>>

\* LineEnd of a reader that takes the whole remaining input as one line
LineEndWhole(s, p) == Len(s)

\* end of the line that starts after offset p: its newline, or end of input
LineEnd(s, p) ==
    LET nl == {i \in (p + 1)..Len(s) : s[i] = "\n"}
    IN  IF nl = {} THEN Len(s) ELSE SetMin(nl)

\* ----------------------------------------------------------------- inputs
Pieces ==
    { <<"\n">>, <<" ">>, <<"a">>, <<"F">>, <<"G">>, <<"-">>, <<"+">>, <<"0", "x">>,
      <<"F", "F", "F", "F", "F", "F", "F">> }

RECURSIVE Concat(_)
Concat(ps) == IF ps = <<>> THEN <<>> ELSE Head(ps) \o Concat(Tail(ps))

Inputs == { Concat(ps) : ps \in UNION { [1..k -> Pieces] : k \in 0..MaxPieces } }

\* ------------------------------------------------------------------ state
Init ==
    /\ stdin \in Inputs
    /\ pos = 0
    /\ pc = "start"
    /\ line = <<>>
    /\ words = <<>>
    /\ out = <<>>
    /\ prev = NoRun

\* print >> output, """...header..."""
PrintHeader ==
    /\ pc = "start"
    /\ out' = out \o HeaderLines
    /\ pc' = "loop"
    /\ UNCHANGED <<stdin, pos, line, words, prev>>

\* ReadLine with the header printed inside the loop
ReadLinePrintsHeader ==
    /\ pc = "loop"
    /\ pos < Len(stdin)
    /\ LET e == LineEnd(stdin, pos)
       IN  /\ line' = SubSeq(stdin, pos + 1, e)
           /\ pos' = e
    /\ words' = split_by_n(strip(line'), 8)
    /\ out' = out \o HeaderLines
    /\ pc' = "inner"
    /\ UNCHANGED <<stdin, prev>>

\* for line in input: the next line is read and split
ReadLine ==
    /\ pc = "loop"
    /\ pos < Len(stdin)
    /\ LET e == LineEnd(stdin, pos)
       IN  /\ line' = SubSeq(stdin, pos + 1, e)
           /\ pos' = e
    /\ words' = split_by_n(strip(line'), 8)
    /\ pc' = "inner"
    /\ UNCHANGED <<stdin, out, prev>>

\* for line in input: the input is exhausted and main returns
EndOfInput ==
    /\ pc = "loop"
    /\ pos = Len(stdin)
    /\ pc' = "done"
    /\ UNCHANGED <<stdin, pos, line, words, out, prev>>

\* print >> output, int(word, 16)
PrintWord ==
    /\ pc = "inner"
    /\ words # <<>>
    /\ int16(Head(words)).ok
    /\ out' = Append(out, str(int16(Head(words))))
    /\ words' = Tail(words)
    /\ UNCHANGED <<stdin, pos, pc, line, prev>>

\* RaiseValueError of a loop that converts the whole line before printing:
\* the earlier words of the failing line are not on the output
RaiseValueErrorLineBuffered ==
    /\ pc = "inner"
    /\ words # <<>>
    /\ ~int16(Head(words)).ok
    /\ out' = SubSeq(out, 1, Len(out) - (Len(split_by_n(strip(line), 8)) - Len(words)))
    /\ pc' = "aborted"
    /\ UNCHANGED <<stdin, pos, line, words, prev>>

\* int(word, 16) raises ValueError, which nothing catches
RaiseValueError ==
    /\ pc = "inner"
    /\ words # <<>>
    /\ ~int16(Head(words)).ok
    /\ pc' = "aborted"
    /\ UNCHANGED <<stdin, pos, line, words, out, prev>>

\* for word in ...: the words of the line are exhausted
EndOfLine ==
    /\ pc = "inner"
    /\ words = <<>>
    /\ pc' = "loop"
    /\ UNCHANGED <<stdin, pos, line, words, out, prev>>

\* the program is run a second time on the same input and a fresh output
Rerun ==
    /\ pc \in {"done", "aborted"}
    /\ prev = NoRun
    /\ prev' = [pc |-> pc, out |-> out]
    /\ pos' = 0
    /\ pc' = "start"
    /\ line' = <<>>
    /\ words' = <<>>
    /\ out' = <<>>
    /\ UNCHANGED stdin

Next ==
    \/ PrintHeader
    \/ ReadLine
    \/ EndOfInput
    \/ PrintWord
    \/ RaiseValueError
    \/ EndOfLine
    \/ Rerun

Spec == Init /\ [][Next]_vars

\* --------------------------------------------- vocabulary of the properties
\* the lines of a text, without their terminating newline
RECURSIVE LinesOf(_, _)
LinesOf(s, cur) ==
    IF s = <<>> THEN (IF cur = <<>> THEN <<>> ELSE <<cur>>)
    ELSE IF Head(s) = "\n" THEN <<cur>> \o LinesOf(Tail(s), <<>>)
    ELSE LinesOf(Tail(s), Append(cur, Head(s)))

Consumed == SubSeq(stdin, 1, pos)

\* value of a hex digit, as the hex digit alphabet defines it
DigitValue(c) ==
    CASE c = "0" -> 0 [] c = "1" -> 1 [] c = "2" -> 2 [] c = "3" -> 3
      [] c = "4" -> 4 [] c = "5" -> 5 [] c = "6" -> 6 [] c = "7" -> 7
      [] c = "8" -> 8 [] c = "9" -> 9
      [] c \in {"a", "A"} -> 10 [] c \in {"b", "B"} -> 11
      [] c \in {"c", "C"} -> 12 [] c \in {"d", "D"} -> 13
      [] c \in {"e", "E"} -> 14 [] c \in {"f", "F"} -> 15

HexAlphabet ==
    {"0", "1", "2", "3", "4", "5", "6", "7", "8", "9",
     "a", "b", "c", "d", "e", "f", "A", "B", "C", "D", "E", "F"}

AllHex(s) == \A i \in 1..Len(s) : s[i] \in HexAlphabet

HasNonHex(s) == \E i \in 1..Len(s) : s[i] \notin HexAlphabet

\* a line whose stripped text is made of hex digits only
ValidHexLine(l) == AllHex(strip(l))

ValidHexText(s) ==
    LET ls == LinesOf(s, <<>>) IN \A i \in 1..Len(ls) : ValidHexLine(ls[i])

\* ceil(n / 8)
Ceil8(n) == (n + 7) \div 8

\* the k-th 8-character chunk of a stripped line, the last one being shorter
ChunkAt(l, k) == SubSeq(l, 8 * (k - 1) + 1, IF 8 * k < Len(l) THEN 8 * k ELSE Len(l))

ChunksOfLine(l) == [k \in 1..Ceil8(Len(l)) |-> ChunkAt(l, k)]

\* the chunks of all lines of a text, in input order
RECURSIVE ChunksOfLines(_)
ChunksOfLines(ls) ==
    IF ls = <<>> THEN <<>>
    ELSE ChunksOfLine(strip(Head(ls))) \o ChunksOfLines(Tail(ls))

ChunksOf(s) == ChunksOfLines(LinesOf(s, <<>>))

RECURSIVE ChunkCount(_)
ChunkCount(ls) ==
    IF ls = <<>> THEN 0 ELSE Ceil8(Len(strip(Head(ls)))) + ChunkCount(Tail(ls))

\* positional base-16 value of at most four hex digits
RECURSIVE Positional(_)
Positional(s) ==
    IF s = <<>> THEN 0
    ELSE DigitValue(s[1]) * 16 ^ (Len(s) - 1) + Positional(Tail(s))

\* base-16 value of a chunk of at most eight hex digits
Base16(c) ==
    LET n == Len(c)
    IN  [neg |-> FALSE,
         hi  |-> IF n > 4 THEN Positional(SubSeq(c, 1, n - 4)) ELSE 0,
         lo  |-> IF n > 4 THEN Positional(SubSeq(c, n - 3, n)) ELSE Positional(c)]

\* the integer a consumer reads from a decimal output line
RECURSIVE ReadMagnitude(_, _)
ReadMagnitude(s, v) ==
    IF s = <<>> THEN v
    ELSE LET t == v.lo * 10 + DigitValue(Head(s))
         IN  ReadMagnitude(Tail(s),
                 [hi |-> v.hi * 10 + t \div 65536, lo |-> t % 65536])

ReadDecimal(s) ==
    LET minus == s # <<>> /\ s[1] = "-"
        m     == ReadMagnitude(IF minus THEN Tail(s) ELSE s, [hi |-> 0, lo |-> 0])
    IN  [neg |-> minus, hi |-> m.hi, lo |-> m.lo]

HeaderLen == Len(HeaderLines)

\* the Output Integers: what follows the header on the output
OutputIntegers ==
    [i \in 1..(Len(out) - HeaderLen) |-> ReadDecimal(out[HeaderLen + i])]

Value(n) == [neg |-> n.neg, hi |-> n.hi, lo |-> n.lo]

HeaderStarts == {i \in 1..(Len(out) - HeaderLen + 1) :
                    SubSeq(out, i, i + HeaderLen - 1) = HeaderLines}

TypeOK ==
    /\ pos \in 0..Len(stdin)
    /\ pc \in {"start", "loop", "inner", "done", "aborted"}

\* ----------------------------------------------------------------- claims
\* C1: the header is written exactly once and before any Output Integer:
\* nothing is on the output before main's first statement, and from then on
\* the output starts with the header and contains it exactly one time,
\* also for empty input and for runs that abort.
HeaderExactlyOnceFirst ==
    /\ pc = "start" => out = <<>>
    /\ pc # "start" => HeaderStarts = {1}

HeaderOnceAfterAbort ==
    pc = "aborted" /\ Len(out) > HeaderLen /\ HeaderStarts = {1}

\* C2: for input made only of valid hex lines the run does not abort and
\* the Output Integers are, in order, the base-16 values of the chunks of
\* the lines read so far, the chunks being the consecutive 8-character
\* substrings of each stripped line with an unpadded shorter last one.
HexChunksConverted ==
    ValidHexText(stdin) =>
        /\ pc # "aborted"
        /\ pc \in {"loop", "done"} =>
              OutputIntegers = [i \in 1..Len(ChunksOf(Consumed)) |->
                                   Base16(ChunksOf(Consumed)[i])]

HexChunksConvertedWitness ==
    /\ pc = "done"
    /\ ValidHexText(stdin)
    /\ \A i \in 1..Len(stdin) : stdin[i] # "\n"
    /\ Len(stdin) = 9
    /\ Len(out) = HeaderLen + 2

\* C3: a valid hex line of length n produces ceil(n / 8) Output Integers:
\* while valid hex lines are read, the integers written are ceil(n / 8) for
\* every line read, less the words of the current line still to be printed.
CeilChunksPerLine ==
    (pc \in {"loop", "inner", "done"} /\ ValidHexText(Consumed)) =>
        Len(out) - HeaderLen = ChunkCount(LinesOf(Consumed, <<>>)) - Len(words)

CeilChunksPerLineWitness ==
    /\ pc = "loop"
    /\ ValidHexLine(line)
    /\ Len(strip(line)) = 9
    /\ Len(out) - HeaderLen = 2

\* C4: a chunk with a character outside the hex digit alphabet is never
\* converted: the step taken on such a chunk aborts the run and writes
\* nothing.
NonHexChunkAborts ==
    [][(pc = "inner" /\ words # <<>> /\ HasNonHex(Head(words)))
          => (pc' = "aborted" /\ out' = out)]_vars

\* C5: when the run has aborted, the output is the header followed by the
\* integers of exactly the chunks that precede the first chunk whose
\* conversion fails; nothing is written for that chunk or any later one.
FirstFailing(cs) == SetMin({i \in 1..Len(cs) : ~int16(cs[i]).ok})

AbortKeepsPrefix ==
    pc = "aborted" =>
        LET cs == ChunksOf(stdin)
        IN  /\ \E i \in 1..Len(cs) : ~int16(cs[i]).ok
            /\ HeaderStarts = {1}
            /\ OutputIntegers =
                  [i \in 1..(FirstFailing(cs) - 1) |-> Value(int16(cs[i]))]

AbortKeepsPrefixWitness ==
    /\ pc = "aborted"
    /\ Len(out) > HeaderLen
    /\ Len(words) < Ceil8(Len(strip(line)))

\* C6: every Output Integer is non-negative.
OutputNonNegative ==
    \A i \in 1..(Len(out) - HeaderLen) : ~OutputIntegers[i].neg

\* C7: every Output Integer is an unsigned 32-bit value, between 0 and
\* 4294967295 = 65535 * 65536 + 65535.
OutputFitsUnsigned32 ==
    \A i \in 1..(Len(out) - HeaderLen) :
        LET v == OutputIntegers[i]
        IN  ~v.neg /\ v.hi <= 65535 /\ v.lo <= 65535

\* C8: a second run on the same input writes the same output and ends the
\* same way (returns, or aborts at the same point) as the first.
IsPrefix(s, t) == Len(s) <= Len(t) /\ SubSeq(t, 1, Len(s)) = s

EmptyLineSkipped ==
    [][/\ (pc = "loop" /\ pc' = "inner" /\ strip(line') = <<>>)
             => (words' = <<>> /\ out' = out)
       /\ (pc = "inner" /\ strip(line) = <<>>)
             => (pc' = "loop" /\ out' = out)]_vars

EmptyLineSkippedWitness ==
    LET ls == LinesOf(stdin, <<>>)
    IN  /\ pc = "done"
        /\ Len(ls) = 3
        /\ strip(ls[2]) = <<>>
        /\ Len(out) = HeaderLen + 2

\* C10: input is consumed one line at a time and output is incremental:
\* a line is read only when no word of an earlier line is left to print,
\* the read takes exactly the next line and nothing beyond it, and at that
\* point the output holds the integers of all chunks of the lines read
\* before.
OneLineAtATime ==
    [][(pc = "loop" /\ pc' = "inner") =>
          /\ words = <<>>
          /\ pos' > pos
          /\ line' = SubSeq(stdin, pos + 1, pos')
          /\ \A i \in (pos + 1)..(pos' - 1) : stdin[i] # "\n"
          /\ pos' = Len(stdin) \/ stdin[pos'] = "\n"
          /\ OutputIntegers =
                [i \in 1..Len(ChunksOf(Consumed)) |->
                    Value(int16(ChunksOf(Consumed)[i]))]]_vars

OneLineAtATimeWitness ==
    /\ pc = "inner"
    /\ Len(out) > HeaderLen
    /\ words # <<>>
    /\ Len(LinesOf(Consumed, <<>>)) = 2
====
